---- MODULE Spec2Model ----
(***************************************************************************)
(* Model of src/motion.py, class MotionDataGenerator.                      *)
(*                                                                         *)
(* Numbers.  The code computes in Python ints and floats.  The model      *)
(* computes the same values exactly in integers:                           *)
(*   - base_speed is held in halves        (2 is the default 1.0),         *)
(*   - hesitation_chance and randomness in hundredths (15 is 0.15),        *)
(*   - curvature in tenths                 (3 is the default 0.3),         *)
(*   - the "mm-mp" field in hundredths     (2500 is 25.0),                 *)
(*   - a square root only ever appears under int(), where                  *)
(*     int(sqrt(n) / c) = ISqrt(n) \div c.                                 *)
(*                                                                         *)
(* A quotient or product that Python rounds or truncates is taken exactly;  *)
(* a float a last-place error away from a whole number can fall on the     *)
(* other side of it, which moves a step or a sample by one unit and no     *)
(* more.                                                                   *)
(*                                                                         *)
(* Randomness.  The module-level generator `random` is an input: a tape   *)
(* of RandLevels+1 equally spaced levels, read cyclically, one cell per    *)
(* call of random.randint / random.uniform / random.random, in the order  *)
(* the code makes the calls.  Every operator that draws takes the tape    *)
(* and the number k of cells already read, and returns the new k.         *)
(*                                                                         *)
(* Exceptions.  An operator that can raise returns a record whose exc     *)
(* field names the exception ("" when it returns normally).               *)
(***************************************************************************)
EXTENDS Integers, Sequences, FiniteSets

VARIABLES screen_width, screen_height, base_speed, randomness,
          hesitation_chance, pc, call, ret

vars == <<screen_width, screen_height, base_speed, randomness,
          hesitation_chance, pc, call, ret>>

(* ------------------------------ bounds -------------------------------- *)

\* A random draw takes one of the levels 0..RandLevels of its range.
RandLevels == 2

\* Length of the cyclic tape of draws handed to one call.
TapeLen == 2

Tapes == [1..TapeLen -> 0..RandLevels]

(* ----------------------------- arithmetic ----------------------------- *)

Max(a, b) == IF a >= b THEN a ELSE b

Min(a, b) == IF a <= b THEN a ELSE b

Abs(a) == IF a >= 0 THEN a ELSE -a

\* int(num / den) for den > 0: Python's int() truncates toward zero.
Trunc(num, den) == IF num >= 0 THEN num \div den ELSE -((-num) \div den)

\* round(num / den) for den > 0: Python 3 and numpy round half to even.
RoundHalfEven(num, den) ==
    LET q == num \div den
        r == num % den
    IN  IF 2 * r < den THEN q
        ELSE IF 2 * r > den THEN q + 1
        ELSE IF q % 2 = 0 THEN q ELSE q + 1

RECURSIVE ISqrtIn(_, _, _)
\* The r in lo..hi with r*r <= n < (r+1)*(r+1), by bisection.
ISqrtIn(n, lo, hi) ==
    IF lo >= hi THEN lo
    ELSE LET mid == (lo + hi + 1) \div 2
         IN  IF mid * mid <= n THEN ISqrtIn(n, mid, hi)
             ELSE ISqrtIn(n, lo, mid - 1)

\* floor(math.sqrt(n)) for n >= 0.
ISqrt(n) == ISqrtIn(n, 0, Min(n, 46340))

RECURSIVE Pow(_, _)
Pow(b, e) == IF e <= 0 THEN 1 ELSE b * Pow(b, e - 1)

RECURSIVE Fact(_)
Fact(n) == IF n <= 1 THEN 1 ELSE n * Fact(n - 1)

Binom(n, k) == Fact(n) \div (Fact(k) * Fact(n - k))

Last(s) == s[Len(s)]

\* The element of a one-element set.  { e(x) : x \in {v} } names the value v
\* as x in e, so that v is computed once however often e reads it.
Only(S) == CHOOSE x \in S : TRUE

(* ------------------------------ random -------------------------------- *)

\* The cell read by the (k+1)-th draw of a call.
Draw(tape, k) == tape[(k % Len(tape)) + 1]

\* random.randint(a, b), a <= b: the level-u value of a..b, both ends reached.
RandInt(a, b, u) == a + ((b - a) * u) \div RandLevels

\* random.uniform(0.7, 1.3) of _FakeTiming, in hundredths.
RandFactor(u) == 70 + (60 * u) \div RandLevels

\* random.random() < chance, chance in hundredths; random() is u/(RandLevels+1),
\* a value of [0, 1).
RandomBelow(u, chance) == 100 * u < chance * (RandLevels + 1)

(* ------------------------------- paths -------------------------------- *)

Point(x, y) == <<x, y>>

\* (end - start) squared length: the argument of math.sqrt at lines 62, 79.
Dist2(a, b) == (b[1] - a[1]) * (b[1] - a[1]) + (b[2] - a[2]) * (b[2] - a[2])

\* max(0, min(limit - 1, v)) of lines 107-108.
Clamp(v, limit) == Max(0, Min(limit - 1, v))

\* One sample of _LinearPath: int(start + t * (end - start)), t = i/(points-1).
LinearPoint(start, end, points, i) ==
    IF points > 1
    THEN Point(Trunc(start[1] * (points - 1) + i * (end[1] - start[1]), points - 1),
               Trunc(start[2] * (points - 1) + i * (end[2] - start[2]), points - 1))
    ELSE Point(start[1], start[2])

\* _LinearPath(start, end, points): no clamping, no deduplication.
LinearPath(start, end, points) ==
    [i \in 1..Max(points, 0) |-> LinearPoint(start, end, points, i - 1)]

\* max(10, int(distance / 15)) of line 63.
NumPoints(start, end) == Max(10, ISqrt(Dist2(start, end)) \div 15)

\* max(10, int(distance / 20)) of line 120.
FallbackPoints(start, end) == Max(10, ISqrt(Dist2(start, end)) \div 20)

\* Common denominator of the control points of a curve of control_points
\* nodes: t = i/(control_points-1), offsets in steps of 1/(50*RandLevels).
NodeDen(control_points) ==
    IF control_points > 2 THEN 50 * RandLevels * (control_points - 1) ELSE 1

\* Interior control point i (lines 72-91) scaled by NodeDen: the point at
\* t = i/(control_points-1) of the segment, moved along the normal
\* (-dy, dx)/len by uniform(-curvature*d*0.2, curvature*d*0.2); the length d
\* cancels.  u is the level drawn (unused when start = end: no draw is made).
ControlNode(start, end, control_points, curvature, i, u) ==
    LET dx == end[1] - start[1]
        dy == end[2] - start[2]
        den == NodeDen(control_points)
        lat == IF Dist2(start, end) > 0
               THEN curvature * (2 * u - RandLevels) * (control_points - 1)
               ELSE 0
    IN  Point(start[1] * den + i * dx * 50 * RandLevels - dy * lat,
              start[2] * den + i * dy * 50 * RandLevels + dx * lat)

\* Number of draws made by the control-point loop (line 85).
ControlDraws(start, end, control_points) ==
    IF control_points > 2 /\ Dist2(start, end) > 0 THEN control_points - 2 ELSE 0

\* x_coords / y_coords of lines 65-94, scaled by NodeDen.
ControlNodes(start, end, control_points, curvature, tape, k) ==
    LET den == NodeDen(control_points)
        inner == IF control_points > 2 THEN control_points - 2 ELSE 0
    IN  [n \in 1..(inner + 2) |->
            IF n = 1 THEN Point(start[1] * den, start[2] * den)
            ELSE IF n = inner + 2 THEN Point(end[1] * den, end[2] * den)
            ELSE ControlNode(start, end, control_points, curvature, n - 1,
                             Draw(tape, k + n - 2))]

RECURSIVE BernsteinSum(_, _, _, _, _)
\* Sum over node indices n..Len(nodes) of C(g, n-1) (m-j)^(g-n+1) j^(n-1) node[c].
BernsteinSum(nodes, c, m, j, n) ==
    IF n > Len(nodes) THEN 0
    ELSE LET g == Len(nodes) - 1
         IN  Binom(g, n - 1) * Pow(m - j, g - n + 1) * Pow(j, n - 1) * nodes[n][c]
             + BernsteinSum(nodes, c, m, j, n + 1)

\* curve.evaluate_multi at t = j/m, rounded and clamped (lines 99-110).
CurvePoint(nodes, den, m, j, sw, sh) ==
    LET g == Len(nodes) - 1
        d == den * Pow(m, g)
    IN  Point(Clamp(RoundHalfEven(BernsteinSum(nodes, 1, m, j, 1), d), sw),
              Clamp(RoundHalfEven(BernsteinSum(nodes, 2, m, j, 1), d), sh))

RECURSIVE DedupFrom(_, _, _)
DedupFrom(path_points, i, acc) ==
    IF i > Len(path_points) THEN acc
    ELSE DedupFrom(path_points, i + 1,
                   IF path_points[i] # Last(acc) THEN Append(acc, path_points[i])
                   ELSE acc)

\* Lines 112-115: collapse runs of equal points.
Dedup(path_points) == DedupFrom(path_points, 2, <<path_points[1]>>)

\* The try block of lines 62-117 when nothing raises.
CurvePath(start, end, control_points, curvature, sw, sh, tape, k) ==
    Only({ Dedup(<<>> \o [j \in 1..n |->
                     CurvePoint(nodes, NodeDen(control_points), n - 1, j - 1, sw, sh)])
           : nodes \in {<<>> \o ControlNodes(start, end, control_points,
                                              curvature, tape, k)},
             n \in {NumPoints(start, end)} })

\* Where the try block raises.  "sqrt": line 62 (OverflowError, the squared
\* distance of int coordinates too large for a float).  "range": line 71
\* (TypeError, control_points not an int).  "curve": line 97.  "evaluate":
\* line 100.  "none": nothing raises.
Faults == {"none", "sqrt", "range", "curve", "evaluate"}

\* _Generate_BezierPath.  The handler of line 119 reads `distance`, which is
\* unbound when line 62 itself raised: UnboundLocalError leaves the call.
BezierPath(start, end, control_points, curvature, fault, sw, sh, tape, k) ==
    IF fault = "sqrt"
    THEN [exc |-> "UnboundLocalError", branch |-> "none", path |-> <<>>, k |-> k]
    ELSE IF fault = "range"
    THEN [exc |-> "", branch |-> "linear",
          path |-> LinearPath(start, end, FallbackPoints(start, end)), k |-> k]
    ELSE IF fault \in {"curve", "evaluate"}
    THEN [exc |-> "", branch |-> "linear",
          path |-> LinearPath(start, end, FallbackPoints(start, end)),
          k |-> k + ControlDraws(start, end, control_points)]
    ELSE [exc |-> "", branch |-> "curve",
          path |-> CurvePath(start, end, control_points, curvature, sw, sh, tape, k),
          k |-> k + ControlDraws(start, end, control_points)]

(* ------------------------------- timing ------------------------------- *)

\* int(base_interval * rand_factor * base_speed) of lines 163-168, with
\* base_interval = max(8, min(35, distance * 2)); rf in hundredths, speed in
\* halves.  distance*2 = sqrt(4*d2): clamped when 4*d2 <= 64 or >= 1225.
StepMs(prev, cur, rf, speed) ==
    LET q == 4 * Dist2(prev, cur)
    IN  IF q <= 64 THEN Trunc(8 * rf * speed, 200)
        ELSE IF q >= 1225 THEN Trunc(35 * rf * speed, 200)
        ELSE LET mag == ISqrt(q * rf * rf * speed * speed) \div 200
             IN  IF speed >= 0 THEN mag ELSE -mag

RECURSIVE FakeTimingFrom(_, _, _, _, _, _, _, _)
FakeTimingFrom(path, i, current_ts, timed, speed, chance, tape, k) ==
    IF i > Len(path) THEN [timed |-> timed, k |-> k]
    ELSE LET step == StepMs(path[i - 1], path[i], RandFactor(Draw(tape, k)), speed)
             hes == RandomBelow(Draw(tape, k + 1), chance)
             extra == IF hes THEN RandInt(50, 200, Draw(tape, k + 2)) ELSE 0
         IN  Only({ FakeTimingFrom(path, i + 1, ts,
                                   Append(timed, <<path[i][1], path[i][2], ts>>),
                                   speed, chance, tape, IF hes THEN k + 3 ELSE k + 2)
                    : ts \in {current_ts + step + extra} })

\* _FakeTiming(path, base_time) under the stored base_speed, hesitation_chance.
FakeTiming(path, base_time, speed, chance, tape, k) ==
    IF Len(path) = 0 THEN [timed |-> <<>>, k |-> k]
    ELSE FakeTimingFrom(path, 2, base_time,
                        <<<<path[1][1], path[1][2], base_time>>>>,
                        speed, chance, tape, k)

\* _Generate_MouseMovement(start, end, timestamp), timestamp given.
MouseMovement(start, end, timestamp, sw, sh, speed, chance, tape, k) ==
    Only({ Only({ [exc |-> p.exc, timed |-> t.timed, k |-> t.k]
                  : t \in {FakeTiming(p.path, timestamp, speed, chance, tape, p.k)} })
           : p \in {BezierPath(start, end, 3, 3, "none", sw, sh, tape, k)} })

(* ------------------------------- clicks ------------------------------- *)

ClickTypes == {"single", "double", "hold"}

\* _Generate_ClickSequence with the second down of a double click timed from
\* the base timestamp instead of from the first up.
ClickSequenceFromBase(position, timestamp, click_type, tape, k) ==
    LET x == position[1]
        y == position[2]
    IN  IF click_type = "double"
        THEN LET first_up == timestamp + RandInt(50, 100, Draw(tape, k))
                 second_down == timestamp + RandInt(50, 150, Draw(tape, k + 1))
                 second_up == second_down + RandInt(50, 100, Draw(tape, k + 2))
             IN  [down |-> <<<<x, y, timestamp>>, <<x, y, second_down>>>>,
                  up |-> <<<<x, y, first_up>>, <<x, y, second_up>>>>,
                  k |-> k + 3]
        ELSE IF click_type \in {"single", "hold"}
        THEN [down |-> <<<<x, y, timestamp>>>>,
              up |-> <<<<x, y, timestamp + RandInt(50, 150, Draw(tape, k))>>>>,
              k |-> k + 1]
        ELSE [down |-> <<>>, up |-> <<>>, k |-> k]

\* _Generate_ClickSequence(position, timestamp, click_type), timestamp given.
\* click_delay_range is (50, 150) (line 46).
ClickSequence(position, timestamp, click_type, tape, k) ==
    LET x == position[1]
        y == position[2]
    IN  IF click_type = "single"
        THEN LET up_time == timestamp + RandInt(50, 150, Draw(tape, k))
             IN  [down |-> <<<<x, y, timestamp>>>>, up |-> <<<<x, y, up_time>>>>,
                  k |-> k + 1]
        ELSE IF click_type = "double"
        THEN LET first_up == timestamp + RandInt(50, 100, Draw(tape, k))
                 second_down == first_up + RandInt(50, 150, Draw(tape, k + 1))
                 second_up == second_down + RandInt(50, 100, Draw(tape, k + 2))
             IN  [down |-> <<<<x, y, timestamp>>, <<x, y, second_down>>>>,
                  up |-> <<<<x, y, first_up>>, <<x, y, second_up>>>>,
                  k |-> k + 3]
        ELSE IF click_type = "hold"
        THEN LET up_time == timestamp + RandInt(500, 1500, Draw(tape, k))
             IN  [down |-> <<<<x, y, timestamp>>>>, up |-> <<<<x, y, up_time>>>>,
                  k |-> k + 1]
        ELSE [down |-> <<>>, up |-> <<>>, k |-> k]

(* ----------------------------- interaction ---------------------------- *)

Rect(x, y, w, h) == [x |-> x, y |-> y, width |-> w, height |-> h]

\* Lines 280-282: the pause after the approach movement.
AfterApproach(last_ts, u1, u2) ==
    last_ts + RandInt(100, 300, u1) + RandInt(500, 1500, u2)

\* Line 297 with a gap that may be empty.
BeforeClickNoGap(last_ts, u) == last_ts + RandInt(0, 150, u)

\* Line 297: the gap between the end of a movement and the click on an image.
BeforeClick(last_ts, u) == last_ts + RandInt(50, 150, u)

\* Line 302: the gap after a click's last up event.
AfterClick(up_ts, u) == up_ts + RandInt(200, 500, u)

\* Line 305: the extra gap when the entry is not the last of selected_images.
BetweenSelections(ts, u) == ts + RandInt(300, 800, u)

\* Line 315: the gap between the end of the last movement and the submit click.
BeforeSubmit(last_ts, u) == last_ts + RandInt(100, 200, u)

\* Lines 273-276.
CaptchaCenter(box) ==
    Point(box.x + box.width \div 2, box.y + box.height \div 2)

\* Lines 307-310.
SubmitPos(box) ==
    Point(box.x + box.width \div 2, box.y + box.height - 30)

RECURSIVE Flatten(_)
\* all_movements: the movements appended one after the other (extend).
Flatten(moves) ==
    IF Len(moves) = 0 THEN <<>> ELSE Head(moves) \o Flatten(Tail(moves))

\* (x, y) of the last point of all_movements (lines 294, 312).
LastPos(moves) ==
    LET m == Last(moves) IN Point(Last(m)[1], Last(m)[2])

\* Lines 290-292: a point of the image, 10 inside its edges.
ClickPos(image, tape, k) ==
    Point(image.x + RandInt(10, image.width - 10, Draw(tape, k)),
          image.y + RandInt(10, image.height - 10, Draw(tape, k + 1)))

\* Lines 296-305: the movement mv to click_pos is appended, then the click
\* and the pauses; more: the entry is not the last of selected_images.
ClickAfterMove(st, image_index, click_pos, more, tape, mv) ==
    Only({ [exc |-> mv.exc,
            moves |-> Append(st.moves, mv.timed),
            md |-> st.md \o ck.down,
            mu |-> st.mu \o ck.up,
            ts |-> IF more
                   THEN BetweenSelections(AfterClick(Last(ck.up)[3], Draw(tape, ck.k)),
                                          Draw(tape, ck.k + 1))
                   ELSE AfterClick(Last(ck.up)[3], Draw(tape, ck.k)),
            k |-> IF more THEN ck.k + 2 ELSE ck.k + 1,
            clicked |-> Append(st.clicked, image_index)]
           : ck \in {ClickSequence(click_pos,
                                   BeforeClick(Last(mv.timed)[3], Draw(tape, mv.k)),
                                   "single", tape, mv.k + 1)} })

\* Lines 294-305: from the last point of all_movements to click_pos.
MoveAndClick(st, image_index, click_pos, more, sw, sh, speed, chance, tape) ==
    Only({ ClickAfterMove(st, image_index, click_pos, more, tape, mv)
           : mv \in {MouseMovement(LastPos(st.moves), click_pos, st.ts,
                                   sw, sh, speed, chance, tape, st.k + 2)} })

\* One iteration of the loop of lines 284-305 for entry i (1-based) of
\* selected_images.  st: exc, moves (the movements so far), md, mu, ts
\* (current_ts), k (draws made), clicked (the image indices clicked so far).
SelectStep(st, images, selected, i, sw, sh, speed, chance, tape) ==
    LET image_index == selected[i]
        n == Len(images)
    IN  IF image_index >= n THEN st
        ELSE IF image_index < -n THEN [st EXCEPT !.exc = "IndexError"]
        ELSE
        LET image == images[(IF image_index < 0 THEN image_index + n
                             ELSE image_index) + 1]
        IN  IF image.width - 10 < 10 \/ image.height - 10 < 10
            THEN [st EXCEPT !.exc = "ValueError"]
            ELSE
            Only({ MoveAndClick(st, image_index, click_pos,
                                i - 1 < Len(selected) - 1,
                                sw, sh, speed, chance, tape)
                   : click_pos \in {ClickPos(image, tape, st.k)} })

RECURSIVE SelectLoop(_, _, _, _, _, _, _, _, _)
SelectLoop(st, images, selected, i, sw, sh, speed, chance, tape) ==
    IF i > Len(selected) \/ st.exc # "" THEN st
    ELSE Only({ SelectLoop(st1, images, selected, i + 1, sw, sh, speed, chance, tape)
                : st1 \in {SelectStep(st, images, selected, i, sw, sh, speed,
                                      chance, tape)} })

\* Lines 321-325 with the average cut to two decimals instead of rounded.
AvgPeriodTruncated(mm) ==
    IF Len(mm) > 1
    THEN {Trunc(100 * (Last(mm)[3] - mm[1][3]), Len(mm) - 1)}
    ELSE {2500}

\* Lines 321-325 and 332: round(avg_period, 2) in hundredths.  The quotient
\* is a float; on a decimal tie that no float holds exactly (the quotient is
\* not a multiple of 1/8) the float's error decides, so both neighbours are
\* possible; otherwise round() rounds half to even.
AvgPeriod(mm) ==
    IF Len(mm) > 1
    THEN LET total == 100 * (Last(mm)[3] - mm[1][3])
             n == Len(mm) - 1
             q == total \div n
         IN  IF 2 * (total % n) = n /\ (8 * (Last(mm)[3] - mm[1][3])) % n # 0
             THEN {q, q + 1}
             ELSE {RoundHalfEven(total, n)}
    ELSE {2500}

\* Lines 278-282: the approach movement mv opens all_movements.
AfterApproachMove(mv, tape) ==
    [exc |-> mv.exc, moves |-> <<mv.timed>>, md |-> <<>>, mu |-> <<>>,
     ts |-> AfterApproach(Last(mv.timed)[3], Draw(tape, mv.k), Draw(tape, mv.k + 1)),
     k |-> mv.k + 2, clicked |-> <<>>]

\* Lines 314-319: the movement sm to the submit point, then the submit click.
SubmitAfterMove(st, box, tape, sm) ==
    Only({ [exc |-> sm.exc,
            moves |-> Append(st.moves, sm.timed),
            md |-> st.md \o ck.down,
            mu |-> st.mu \o ck.up,
            ts |-> ck.down[1][3], k |-> ck.k, clicked |-> st.clicked]
           : ck \in {ClickSequence(SubmitPos(box),
                                   BeforeSubmit(Last(sm.timed)[3], Draw(tape, sm.k)),
                                   "single", tape, sm.k + 1)} })

\* Lines 307-319 after the loop left the state st.
Submit(st, box, sw, sh, speed, chance, tape) ==
    IF st.exc # "" THEN st
    ELSE Only({ SubmitAfterMove(st, box, tape, sm)
                : sm \in {MouseMovement(LastPos(st.moves), SubmitPos(box), st.ts,
                                        sw, sh, speed, chance, tape, st.k)} })

\* _Generate_Interaction up to line 319: everything but the record.  The two
\* draws of lines 269-270 raise ValueError on an empty range.
InteractionEvents(box, images, selected, now, sw, sh, speed, chance, tape) ==
    IF sw - 100 < 100 \/ box.y - 50 < 100
    THEN [exc |-> "ValueError", moves |-> <<>>, md |-> <<>>, mu |-> <<>>,
          ts |-> now, k |-> 0, clicked |-> <<>>]
    ELSE Only({ Submit(st, box, sw, sh, speed, chance, tape)
                : st \in { SelectLoop(st0, images, selected, 1, sw, sh, speed,
                                      chance, tape)
                           : st0 \in { AfterApproachMove(mv, tape)
                                       : mv \in {MouseMovement(
                                           Point(RandInt(100, sw - 100, Draw(tape, 0)),
                                                 RandInt(100, box.y - 50, Draw(tape, 1))),
                                           CaptchaCenter(box), now,
                                           sw, sh, speed, chance, tape, 2)} } } })

\* The motion_data dictionary of lines 327-334 for one of the possible
\* roundings mp of the average period.
MotionData(start_ts, ev, mp) ==
    [st |-> start_ts, mm |-> Flatten(ev.moves), md |-> ev.md, mu |-> ev.mu,
     mm_mp |-> mp, v |-> 1]

(* ------------------------------- inputs ------------------------------- *)

\* Constructor arguments (screen_width, screen_height).
Screens == {<<300, 340>>}

\* Values passed to _Set_MotionParams as <<speed, randomness,
\* hesitation_chance>>: speed in halves, the others in hundredths.  None is
\* validated by the code: a negative speed and a chance above 1 are accepted.
MotionParams == {<<2, 30, 15>>, <<-2, 30, 15>>, <<0, 90, 250>>, <<3, 90, 0>>}

\* int(time.time() * 1000) at the start of a call.
Clock == {1000}

\* Container rectangles: one inside the screen, one whose top is nearer than
\* 150 to the top of the page, one reaching past the screen.
Boxes == {Rect(150, 150, 100, 180), Rect(150, 120, 100, 100),
          Rect(250, 200, 100, 180)}

\* Candidate rectangle lists: two regions inside the screen; a region
\* reaching past the right edge and a region narrower than 20; none.
ImageLists == {<<Rect(160, 160, 40, 40), Rect(220, 160, 40, 40)>>,
               <<Rect(280, 200, 40, 40), Rect(160, 160, 15, 40)>>,
               <<>>}

SelectionLists == {<<>>, <<0>>, <<0, 1>>, <<5>>, <<1, 5>>, <<-1>>, <<-3>>}

\* <<start, end>> of the paths given to _Generate_BezierPath and _LinearPath:
\* start = end, a short path, two long ones.
Segments == {<<<<0, 0>>, <<0, 0>>>>, <<<<0, 0>>, <<4, 7>>>>,
             <<<<40, 230>>, <<0, 0>>>>, <<<<4, 7>>, <<40, 230>>>>}

\* Positions given to _Generate_ClickSequence.
Positions == {<<0, 0>>, <<4, 7>>}

ControlPointCounts == {2, 3, 4}

\* Curvature in tenths.
Curvatures == {3, 10}

PointCounts == {0, 1, 2, 10, 11}

\* Paths given to _FakeTiming.
TimingPaths == {<<>>, <<<<5, 5>>>>, <<<<0, 0>>, <<1, 1>>, <<4, 5>>, <<4, 5>>, <<40, 50>>>>,
                <<<<10, 10>>, <<7, 6>>, <<7, 7>>>>}

BaseTimes == {0, 1000}

(* ------------------------------ the state ----------------------------- *)

NoCall == [op |-> "none"]

NoValue == [exc |-> ""]

\* __init__ (lines 29-46).
Init ==
    /\ \E s \in Screens : screen_width = s[1] /\ screen_height = s[2]
    /\ base_speed = 2
    /\ randomness = 30
    /\ hesitation_chance = 15
    /\ pc = "idle"
    /\ call = NoCall
    /\ ret = NoValue

\* _Set_MotionParams(speed, randomness, hesitation_chance): lines 449-451.
Set_MotionParams(speed, r, h) ==
    /\ pc = "idle"
    /\ base_speed' = speed
    /\ randomness' = r
    /\ hesitation_chance' = h
    /\ UNCHANGED <<screen_width, screen_height, pc, call, ret>>

\* A call of _Generate_BezierPath(start, end, control_points, curvature).
Generate_BezierPath(start, end, control_points, curvature, fault, tape) ==
    /\ pc = "idle"
    /\ pc' = "returned"
    /\ call' = [op |-> "Generate_BezierPath", start |-> start, end |-> end,
                control_points |-> control_points, curvature |-> curvature,
                fault |-> fault]
    /\ ret' = BezierPath(start, end, control_points, curvature, fault,
                         screen_width, screen_height, tape, 0)
    /\ UNCHANGED <<screen_width, screen_height, base_speed, randomness,
                   hesitation_chance>>

\* A call of _LinearPath(start, end, points).
Call_LinearPath(start, end, points) ==
    /\ pc = "idle"
    /\ pc' = "returned"
    /\ call' = [op |-> "LinearPath", start |-> start, end |-> end,
                points |-> points]
    /\ ret' = [exc |-> "", path |-> LinearPath(start, end, points)]
    /\ UNCHANGED <<screen_width, screen_height, base_speed, randomness,
                   hesitation_chance>>

\* A call of _FakeTiming(path, base_time).
Call_FakeTiming(path, base_time, tape) ==
    /\ pc = "idle"
    /\ pc' = "returned"
    /\ call' = [op |-> "FakeTiming", path |-> path, base_time |-> base_time]
    /\ ret' = [exc |-> "",
               timed |-> FakeTiming(path, base_time, base_speed,
                                    hesitation_chance, tape, 0).timed]
    /\ UNCHANGED <<screen_width, screen_height, base_speed, randomness,
                   hesitation_chance>>

\* A call of _Generate_ClickSequence(position, timestamp, click_type).
Generate_ClickSequence(position, timestamp, click_type, tape) ==
    /\ pc = "idle"
    /\ pc' = "returned"
    /\ call' = [op |-> "Generate_ClickSequence", position |-> position,
                timestamp |-> timestamp, click_type |-> click_type]
    /\ \E ck \in {ClickSequence(position, timestamp, click_type, tape, 0)} :
           ret' = [exc |-> "", down |-> ck.down, up |-> ck.up]
    /\ UNCHANGED <<screen_width, screen_height, base_speed, randomness,
                   hesitation_chance>>

\* A call of _Generate_Interaction(captcha_box, challenge_images,
\* selected_images) at wall-clock time now.  ret.moves and ret.clicked keep,
\* beside the record, the movements in the order they were generated and the
\* selected indices that were clicked.
Generate_Interaction(box, images, selected, now, tape) ==
    /\ pc = "idle"
    /\ pc' = "returned"
    /\ call' = [op |-> "Generate_Interaction", box |-> box, images |-> images,
                selected |-> selected, now |-> now]
    /\ \E ev \in {InteractionEvents(box, images, selected, now, screen_width,
                                   screen_height, base_speed, hesitation_chance,
                                   tape)} :
           IF ev.exc # ""
           THEN ret' = [exc |-> ev.exc]
           ELSE \E mp \in AvgPeriod(Flatten(ev.moves)) :
                    ret' = [exc |-> "", rec |-> MotionData(now, ev, mp),
                            moves |-> ev.moves, clicked |-> ev.clicked]
    /\ UNCHANGED <<screen_width, screen_height, base_speed, randomness,
                   hesitation_chance>>

\* The caller takes the value (or the exception) and is free to call again.
Return ==
    /\ pc = "returned"
    /\ pc' = "idle"
    /\ call' = NoCall
    /\ ret' = NoValue
    /\ UNCHANGED <<screen_width, screen_height, base_speed, randomness,
                   hesitation_chance>>

Next ==
    \/ \E p \in MotionParams : Set_MotionParams(p[1], p[2], p[3])
    \/ \E seg \in Segments, cp \in ControlPointCounts, c \in Curvatures,
          fault \in Faults, tape \in Tapes :
           Generate_BezierPath(seg[1], seg[2], cp, c, fault, tape)
    \/ \E seg \in Segments, points \in PointCounts :
           Call_LinearPath(seg[1], seg[2], points)
    \/ \E path \in TimingPaths, base_time \in BaseTimes, tape \in Tapes :
           Call_FakeTiming(path, base_time, tape)
    \/ \E position \in Positions, timestamp \in BaseTimes,
          click_type \in ClickTypes \cup {"triple"}, tape \in Tapes :
           Generate_ClickSequence(position, timestamp, click_type, tape)
    \/ \E box \in Boxes, images \in ImageLists, selected \in SelectionLists,
          now \in Clock, tape \in Tapes :
           Generate_Interaction(box, images, selected, now, tape)
    \/ Return

Spec == Init /\ [][Next]_vars

(* ------------------------------- claims ------------------------------- *)

\* A call of op has returned a value.
Returned(op) == pc = "returned" /\ call.op = op /\ ret.exc = ""

\* A call of op has ended, with a value or with an exception.
Ended(op) == pc = "returned" /\ call.op = op

NonDecreasing(timed) ==
    \A i \in 1..(Len(timed) - 1) : timed[i][3] <= timed[i + 1][3]

InScreen(pt) ==
    /\ 0 <= pt[1] /\ pt[1] < screen_width
    /\ 0 <= pt[2] /\ pt[2] < screen_height

SameXY(a, b) == a[1] = b[1] /\ a[2] = b[2]

\* C1: the timestamps returned by _FakeTiming, and those of the whole mm list
\* of a record returned by _Generate_Interaction, never decrease, whatever
\* speed and hesitation_chance _Set_MotionParams stored.
C1_MonotonicTimestamps ==
    /\ Returned("FakeTiming") => NonDecreasing(ret.timed)
    /\ Returned("Generate_Interaction") => NonDecreasing(ret.rec.mm)

\* C2: every point of mm, md and mu of a returned record lies in
\* [0, screen_width) x [0, screen_height).
C2_Bounds ==
    Returned("Generate_Interaction") =>
        /\ \A i \in 1..Len(ret.rec.mm) : InScreen(ret.rec.mm[i])
        /\ \A i \in 1..Len(ret.rec.md) : InScreen(ret.rec.md[i])
        /\ \A i \in 1..Len(ret.rec.mu) : InScreen(ret.rec.mu[i])

\* The draws of lines 269-270 and 290-291 have a non-empty range.
DrawableGeometry(box, images) ==
    /\ screen_width - 100 >= 100
    /\ box.y - 50 >= 100
    /\ \A i \in 1..Len(images) :
           images[i].width - 10 >= 10 /\ images[i].height - 10 >= 10

\* The entries of selected_images that are < len(challenge_images), in order.
BelowLen(selected, n) == SelectSeq(selected, LAMBDA e : e < n)

\* The rectangle Python's challenge_images[e] names, e < len(challenge_images).
ImageAt(images, e) == images[(e % Len(images)) + 1]

\* The points line 290-291 can draw inside image.
InClickRegion(pt, image) ==
    /\ image.x + 10 <= pt[1] /\ pt[1] <= image.x + image.width - 10
    /\ image.y + 10 <= pt[2] /\ pt[2] <= image.y + image.height - 10

\* C3: for any selected_images list the call returns without error, with
\* len(md) = len(mu) = k + 1, k the number of entries < len(challenge_images),
\* the clicks in the order of selected_images (rectangles that let every draw
\* be made).
C3_SelectionSkip ==
    (Ended("Generate_Interaction") /\ DrawableGeometry(call.box, call.images)) =>
        /\ ret.exc = ""
        /\ LET sel == BelowLen(call.selected, Len(call.images))
           IN  /\ Len(ret.rec.md) = Len(sel) + 1
               /\ Len(ret.rec.mu) = Len(sel) + 1
               /\ \A j \in 1..Len(sel) :
                      InClickRegion(ret.rec.md[j], ImageAt(call.images, sel[j]))

\* C4: for click_type single, double or hold, the down and up lists have
\* equal length, the k-th up is not before the k-th down, the first down is at
\* the base timestamp, and double gives 2 downs and 2 ups with the second down
\* after the first up.
C4_ClickOrdering ==
    (Returned("Generate_ClickSequence") /\ call.click_type \in ClickTypes) =>
        /\ Len(ret.down) = Len(ret.up)
        /\ Len(ret.down) >= 1
        /\ \A i \in 1..Len(ret.down) : ret.up[i][3] >= ret.down[i][3]
        /\ ret.down[1][3] = call.timestamp
        /\ call.click_type = "double" =>
               /\ Len(ret.down) = 2
               /\ Len(ret.up) = 2
               /\ ret.down[2][3] > ret.up[1][3]

\* A double click has been generated.
C4_Witness ==
    Returned("Generate_ClickSequence") /\ call.click_type = "double"
        /\ Len(ret.down) = 2

\* round(d / 20), d the distance from a to b (half to even on a tie).
RoundedTwentieth(a, b) ==
    LET s == ISqrt(4 * Dist2(a, b))
    IN  IF s * s = 4 * Dist2(a, b) /\ s % 40 = 20
        THEN RoundHalfEven(s, 40)
        ELSE (s + 20) \div 40

\* C5: when a step of the try block of _Generate_BezierPath fails, no error
\* reaches the caller; the path returned is non-empty, has
\* max(10, round(d/20)) points, starts at start and ends at end.
C5_Fallback ==
    (Ended("Generate_BezierPath") /\ call.fault # "none") =>
        /\ ret.exc = ""
        /\ Len(ret.path) >= 1
        /\ Len(ret.path) = Max(10, RoundedTwentieth(call.start, call.end))
        /\ ret.path[1] = call.start
        /\ Last(ret.path) = call.end

\* C6: the list _Generate_BezierPath returns is non-empty and has no two
\* consecutive identical points, on both branches; start = end gives one point.
C6_Dedup ==
    Returned("Generate_BezierPath") =>
        /\ Len(ret.path) >= 1
        /\ \A i \in 1..(Len(ret.path) - 1) : ret.path[i] # ret.path[i + 1]
        /\ call.start = call.end => Len(ret.path) = 1

\* C7: in a returned record each click's down timestamp is after the last
\* point of the movement before it, each movement after the approach starts
\* after the event before it (the approach's last point, or the preceding
\* click's up), and st is the timestamp of the first mm point.
C7_CausalThreading ==
    Returned("Generate_Interaction") =>
        /\ Len(ret.moves) = Len(ret.rec.md) + 1
        /\ Len(ret.rec.mu) = Len(ret.rec.md)
        /\ \A c \in 1..Len(ret.rec.md) :
               ret.rec.md[c][3] > Last(ret.moves[c + 1])[3]
        /\ \A j \in 2..Len(ret.moves) :
               ret.moves[j][1][3] >
                   (IF j = 2 THEN Last(ret.moves[1])[3] ELSE ret.rec.mu[j - 2][3])
        /\ ret.rec.st = ret.rec.mm[1][3]

\* A record with two selection clicks and the submit click has been returned.
C7_Witness ==
    Returned("Generate_Interaction") /\ Len(ret.rec.md) = 3

\* C8 as stated: mm-mp is exactly (last - first) / (len(mm) - 1) when mm has
\* at least 2 points, 25.0 otherwise, and v is 1.
C8_AvgPeriodExact ==
    Returned("Generate_Interaction") =>
        LET mm == ret.rec.mm
        IN  /\ Len(mm) >= 2 =>
                   ret.rec.mm_mp * (Len(mm) - 1) = 100 * (Last(mm)[3] - mm[1][3])
            /\ Len(mm) <= 1 => ret.rec.mm_mp = 2500
            /\ ret.rec.v = 1

\* C8 amended: mm-mp is (last - first) / (len(mm) - 1) rounded to two
\* decimals (within 0.005 of the quotient) when mm has at least 2 points,
\* 25.0 otherwise, and v is 1.
C8_AvgPeriodRounded ==
    Returned("Generate_Interaction") =>
        LET mm == ret.rec.mm
        IN  /\ Len(mm) >= 2 =>
                   2 * Abs(100 * (Last(mm)[3] - mm[1][3])
                           - ret.rec.mm_mp * (Len(mm) - 1)) <= Len(mm) - 1
            /\ Len(mm) <= 1 => ret.rec.mm_mp = 2500
            /\ ret.rec.v = 1

\* A record whose average period is no whole number of hundredths.
C8_Witness ==
    /\ Returned("Generate_Interaction")
    /\ Len(ret.rec.mm) >= 2
    /\ (100 * (Last(ret.rec.mm)[3] - ret.rec.mm[1][3])) % (Len(ret.rec.mm) - 1) # 0

\* C9: with width > 0 and height > 0 in the container and in every candidate
\* rectangle, and every selected index in range, the call returns a record.
C9_Totality ==
    (/\ Ended("Generate_Interaction")
     /\ call.box.width > 0 /\ call.box.height > 0
     /\ \A i \in 1..Len(call.images) :
            call.images[i].width > 0 /\ call.images[i].height > 0
     /\ \A i \in 1..Len(call.selected) :
            0 <= call.selected[i] /\ call.selected[i] < Len(call.images))
        => ret.exc = ""

\* C10: every down/up pair is at the (x, y) of the last point of the movement
\* generated just before it, and every movement after the approach starts at
\* the (x, y) of the last point generated before it.
C10_ClickAtPointer ==
    Returned("Generate_Interaction") =>
        /\ \A c \in 1..Len(ret.rec.md) :
               /\ SameXY(ret.rec.md[c], Last(ret.moves[c + 1]))
               /\ SameXY(ret.rec.mu[c], Last(ret.moves[c + 1]))
        /\ \A j \in 2..Len(ret.moves) :
               SameXY(ret.moves[j][1], Last(ret.moves[j - 1]))

====
